---- MODULE Spec2Model ----
(***************************************************************************)
(* A model of the car-rental server: the storage layer (DatabaseStorage    *)
(* over the relational schema of schema.ts) and the REST handlers of       *)
(* registerRoutes that use it.                                             *)
(*                                                                         *)
(* Dates are day numbers.  Money is an integer: a request carries          *)
(* totalCost in thousandths of the currency unit, the decimal(10,2)        *)
(* columns keep hundredths.  Identifiers (gen_random_uuid) are fresh       *)
(* naturals, 0 meaning "no row".  An average is the fraction               *)
(* total / count in lowest terms; floating-point rounding is left out.     *)
(***************************************************************************)
EXTENDS Integers, Sequences, FiniteSets, TLC

\* Bounds of the model: the days a booking can span, the concurrent booking
\* requests, the bookings stored through the storage layer in the availability
\* and in the revenue runs, and the reviews posted.
MaxDay == 2
NumRequests == 2
MaxBookings == 2
MaxPaidBookings == 3
MaxReviews == 4

VARIABLES users, cars, bookings, payments, reviews, nextId, req

vars == <<users, cars, bookings, payments, reviews, nextId, req>>
db == <<users, cars, bookings, payments, reviews, nextId>>

Days == 1..MaxDay
Procs == 1..NumRequests
NoId == 0

BookingStatuses == {"pending", "confirmed", "completed", "cancelled"}
PaymentStatuses == {"pending", "paid", "failed", "refunded"}
StorageOutcomes == {"ok", "error"}

\* ------------------------------------------------------------ helpers

\* The rows of a table (a function id -> row) with an id of at most n, newest
\* first: ids are handed out in the order of creation.
RECURSIVE RowsDesc(_, _)
RowsDesc(table, n) ==
    IF n = 0 THEN <<>>
    ELSE IF n \in DOMAIN table THEN <<table[n]>> \o RowsDesc(table, n - 1)
         ELSE RowsDesc(table, n - 1)

\* Array.prototype.reduce((sum, x) => sum + f(x), 0) over a sequence of numbers.
RECURSIVE reduceSum(_)
reduceSum(s) == IF s = <<>> THEN 0 ELSE Head(s) + reduceSum(Tail(s))

\* The elements of a finite set, one after the other.
RECURSIVE SetToSeq(_)
SetToSeq(S) ==
    IF S = {} THEN <<>>
    ELSE LET x == CHOOSE y \in S : TRUE IN <<x>> \o SetToSeq(S \ {x})

RECURSIVE GCD(_, _)
GCD(a, b) == IF b = 0 THEN a ELSE GCD(b, a % b)

\* The number a / b of two naturals, b > 0, in lowest terms; Quotient(n, 1)
\* is the number n.
Quotient(a, b) == [num |-> a \div GCD(a, b), den |-> b \div GCD(a, b)]

\* A table with one more row.
Insert(table, id, row) == [i \in DOMAIN table \cup {id} |-> IF i = id THEN row ELSE table[i]]

\* ------------------------------------------------------------ schema.ts

\* pgTable("bookings").status default
DefaultBookingStatus == "pending"
\* pgTable("bookings").paymentStatus default
DefaultPaymentStatus == "pending"
\* pgTable("payments").currency default
DefaultCurrency == "INR"

\* decimal(..., scale: 2): a value in thousandths, stored rounded to hundredths
\* (numeric rounds half away from zero).
ToDecimal2(mills) ==
    IF mills >= 0 THEN (mills + 5) \div 10 ELSE -((-mills + 5) \div 10)

\* Number(row.totalCost): the stored hundredths as a number.
Number(cents) == cents

\* new Date(x) of a request's day number.
NewDate(day) == day

\* ------------------------------------------------------------ storage

\* db.select().from(bookings)
AllBookingRows == RowsDesc(bookings, nextId.bookings - 1)

\* db.select().from(reviews)
AllReviewRows == RowsDesc(reviews, nextId.reviews - 1)

\* OverlapsRequest with the half-open comparison: a booking ending on the
\* requested start day is let through.
OverlapsRequestOpen(b, carId, startDate, endDate) ==
    /\ b.carId = carId
    /\ b.status \in {"confirmed", "pending"}
    /\ b.startDate <= endDate /\ b.endDate > startDate

\* The where clause of checkAvailability's query.
OverlapsRequest(b, carId, startDate, endDate) ==
    /\ b.carId = carId
    /\ b.status \in {"confirmed", "pending"}
    /\ b.startDate <= endDate /\ b.endDate >= startDate

\* The rows checkAvailability's query selects from the given bookings rows.
overlappingBookings(rows, carId, startDate, endDate) ==
    SelectSeq(rows, LAMBDA b : OverlapsRequest(b, carId, startDate, endDate))

\* checkAvailability answering false for a car that is not stored.
checkAvailabilityOfStoredCar(carId, startDate, endDate) ==
    /\ carId \in DOMAIN cars
    /\ Len(overlappingBookings(AllBookingRows, carId, startDate, endDate)) = 0

\* DatabaseStorage.checkAvailability
checkAvailability(carId, startDate, endDate) ==
    Len(overlappingBookings(AllBookingRows, carId, startDate, endDate)) = 0

\* The foreign keys of a bookings row: car_id and user_id reference stored rows.
BookingInsertable(bookingData) ==
    /\ bookingData.carId \in DOMAIN cars
    /\ bookingData.userId \in DOMAIN users

\* The row db.insert(bookings).values(bookingData).returning() stores under a
\* fresh id: absent status columns take the schema's defaults.
BookingRow(id, bookingData) ==
    [id            |-> id,
     carId         |-> bookingData.carId,
     userId        |-> bookingData.userId,
     startDate     |-> bookingData.startDate,
     endDate       |-> bookingData.endDate,
     totalCost     |-> ToDecimal2(bookingData.totalCost),
     status        |-> IF bookingData.status = "" THEN DefaultBookingStatus
                       ELSE bookingData.status,
     paymentStatus |-> IF bookingData.paymentStatus = "" THEN DefaultPaymentStatus
                       ELSE bookingData.paymentStatus]

\* DatabaseStorage.createBooking, the insert done.
createBooking(bookingData) ==
    /\ bookings' = Insert(bookings, nextId.bookings,
                          BookingRow(nextId.bookings, bookingData))
    /\ nextId' = [nextId EXCEPT !.bookings = @ + 1]

\* UpdatedBookingRow with completed and cancelled bookings closed to updates.
UpdatedBookingRowUnlessClosed(row, bookingData) ==
    [f \in DOMAIN row |->
        IF f \notin DOMAIN bookingData \/ row.status \in {"completed", "cancelled"}
        THEN row[f]
        ELSE IF f = "totalCost" THEN ToDecimal2(bookingData[f])
        ELSE bookingData[f]]

\* The row DatabaseStorage.updateBooking leaves: the fields of bookingData, a
\* function on part of the columns, written over the row's.
UpdatedBookingRow(row, bookingData) ==
    [f \in DOMAIN row |->
        IF f \notin DOMAIN bookingData THEN row[f]
        ELSE IF f = "totalCost" THEN ToDecimal2(bookingData[f])
        ELSE bookingData[f]]

\* What updateBooking's returning() hands back: the updated rows.
updatedBookingRows(id, bookingData) ==
    IF id \in DOMAIN bookings THEN <<UpdatedBookingRow(bookings[id], bookingData)>>
    ELSE <<>>

\* updateBooking without the where clause on the id.
updateBookingEveryRow(id, bookingData) ==
    bookings' = [b \in DOMAIN bookings |-> UpdatedBookingRow(bookings[b], bookingData)]

\* DatabaseStorage.updateBooking: no row matches an unknown id.
updateBooking(id, bookingData) ==
    bookings' = [b \in DOMAIN bookings |->
                    IF b = id THEN UpdatedBookingRow(bookings[b], bookingData)
                    ELSE bookings[b]]

\* DatabaseStorage.getCarsByOwner
getCarsByOwner(ownerId) ==
    SetToSeq({cars[c] : c \in {k \in DOMAIN cars : cars[k].ownerId = ownerId}})

\* The query of getBookingsByOwner's loop: the bookings of one car.
carBookings(carId) == SelectSeq(AllBookingRows, LAMBDA b : b.carId = carId)

\* The loop of getBookingsByOwner: allBookings.push(...carBookings) per car.
RECURSIVE pushCarBookings(_)
pushCarBookings(carIds) ==
    IF carIds = <<>> THEN <<>>
    ELSE carBookings(Head(carIds)) \o pushCarBookings(Tail(carIds))

\* getBookingsByOwner collecting the bookings of every car, whoever owns it.
getBookingsOfAllCars(ownerId) ==
    pushCarBookings(SetToSeq(DOMAIN cars))

\* DatabaseStorage.getBookingsByOwner
getBookingsByOwner(ownerId) ==
    LET ownerCars == getCarsByOwner(ownerId)
        carIds == [i \in 1..Len(ownerCars) |-> ownerCars[i].id]
    IN  IF Len(carIds) = 0 THEN <<>> ELSE pushCarBookings(carIds)

\* DatabaseStorage.getAllBookings
getAllBookings == AllBookingRows

\* getReviewsByCarId without its where clause.
getReviewsOfAllCars(carId) == AllReviewRows

\* DatabaseStorage.getReviewsByCarId
getReviewsByCarId(carId) == SelectSeq(AllReviewRows, LAMBDA r : r.carId = carId)

\* DatabaseStorage.getAverageRating
getAverageRating(carId) ==
    LET carReviews == getReviewsByCarId(carId)
    IN  IF Len(carReviews) = 0 THEN Quotient(0, 1)
        ELSE LET total == reduceSum([i \in 1..Len(carReviews) |->
                                        carReviews[i].rating])
             IN  Quotient(total, Len(carReviews))

\* db.select().from(reviews).where(eq(reviews.carId, carId)): the car's rows
\* in the order of their creation.
carReviewRows(carId) ==
    LET newestFirst == SelectSeq(AllReviewRows, LAMBDA r : r.carId = carId)
    IN  [i \in 1..Len(newestFirst) |-> newestFirst[Len(newestFirst) + 1 - i]]

\* The object getAllCars makes of a car: the row with averageRating and
\* reviewCount.
CarWithRating(car) ==
    LET carReviews == carReviewRows(car.id)
        avgRating == IF Len(carReviews) > 0
                     THEN Quotient(reduceSum([i \in 1..Len(carReviews) |->
                                                 carReviews[i].rating]),
                                   Len(carReviews))
                     ELSE Quotient(0, 1)
    IN  [id |-> car.id, ownerId |-> car.ownerId, isAvailable |-> car.isAvailable,
         averageRating |-> avgRating, reviewCount |-> Len(carReviews)]

\* getAllCars with the average rounded down to a whole number.
getAllCarsWholeRating ==
    LET allCars == SetToSeq({cars[c] : c \in {k \in DOMAIN cars : cars[k].isAvailable}})
    IN  [i \in 1..Len(allCars) |->
            [CarWithRating(allCars[i]) EXCEPT
                !.averageRating = Quotient(@.num \div @.den, 1)]]

\* DatabaseStorage.getAllCars
getAllCars ==
    LET allCars == SetToSeq({cars[c] : c \in {k \in DOMAIN cars : cars[k].isAvailable}})
    IN  [i \in 1..Len(allCars) |-> CarWithRating(allCars[i])]

\* The foreign keys of a reviews row.
ReviewInsertable(reviewData) ==
    /\ reviewData.carId \in DOMAIN cars
    /\ reviewData.userId \in DOMAIN users

\* DatabaseStorage.createReview, the insert done.
createReview(reviewData) ==
    /\ reviews' = Insert(reviews, nextId.reviews,
                         [id |-> nextId.reviews, carId |-> reviewData.carId,
                          userId |-> reviewData.userId, rating |-> reviewData.rating,
                          ownerResponse |-> ""])
    /\ nextId' = [nextId EXCEPT !.reviews = @ + 1]

\* The rows left after users and cars are deleted: every foreign key of the
\* schema is declared onDelete: 'cascade'.
CascadeDelete(goneUsers, goneCars) ==
    LET carsLeft == {c \in DOMAIN cars \ goneCars : cars[c].ownerId \notin goneUsers}
        bookingsLeft == {b \in DOMAIN bookings :
                            /\ bookings[b].carId \in carsLeft
                            /\ bookings[b].userId \notin goneUsers}
    IN  [users    |-> [u \in DOMAIN users \ goneUsers |-> users[u]],
         cars     |-> [c \in carsLeft |-> cars[c]],
         bookings |-> [b \in bookingsLeft |-> bookings[b]],
         payments |-> [i \in {j \in DOMAIN payments :
                                 payments[j].bookingId \in bookingsLeft} |->
                          payments[i]],
         reviews  |-> [r \in {j \in DOMAIN reviews :
                                 /\ reviews[j].carId \in carsLeft
                                 /\ reviews[j].userId \notin goneUsers} |->
                          reviews[r]]]

\* DatabaseStorage.getCarById found a row.
carFound(id) == id \in DOMAIN cars

\* DatabaseStorage.getCarById: the row, or a row of no car for undefined.
getCarById(id) ==
    IF carFound(id) THEN cars[id] ELSE [id |-> "", ownerId |-> "", isAvailable |-> FALSE]

\* The row DatabaseStorage.updateCar leaves: the fields of carData written over
\* the row's.
UpdatedCarRow(row, carData) ==
    [f \in DOMAIN row |-> IF f \in DOMAIN carData THEN carData[f] ELSE row[f]]

\* The foreign key of cars.owner_id, for the row an update would leave.
CarUpdatable(id, carData) ==
    carFound(id) => UpdatedCarRow(cars[id], carData).ownerId \in DOMAIN users

\* DatabaseStorage.updateCar, the update done.
updateCar(id, carData) ==
    cars' = [c \in DOMAIN cars |->
                IF c = id THEN UpdatedCarRow(cars[c], carData) ELSE cars[c]]

\* deleteCar removing the car's row and nothing else.
deleteCarRowOnly(id) ==
    /\ cars' = [c \in DOMAIN cars \ {id} |-> cars[c]]
    /\ UNCHANGED <<bookings, payments, reviews>>

\* DatabaseStorage.deleteCar, the delete done: the car's row goes, and with it
\* the rows that reference it.
deleteCar(id) ==
    LET left == CascadeDelete({}, {id})
    IN  /\ cars' = left.cars
        /\ bookings' = left.bookings
        /\ payments' = left.payments
        /\ reviews' = left.reviews

\* The row DatabaseStorage.updateReview leaves.
UpdatedReviewRow(row, reviewData) ==
    [f \in DOMAIN row |-> IF f \in DOMAIN reviewData THEN reviewData[f] ELSE row[f]]

\* DatabaseStorage.updateReview, the update done: the rows whose id is the
\* given one are set.
updateReview(id, reviewData) ==
    reviews' = [r \in DOMAIN reviews |->
                   IF r = id THEN UpdatedReviewRow(reviews[r], reviewData)
                   ELSE reviews[r]]

\* The foreign key and the unique constraint of payments.booking_id.
PaymentInsertable(paymentData) ==
    /\ paymentData.bookingId \in DOMAIN bookings
    /\ \A i \in DOMAIN payments : payments[i].bookingId # paymentData.bookingId

\* The row db.insert(payments).values(paymentData).returning() stores.
PaymentRow(id, paymentData) ==
    [id        |-> id,
     bookingId |-> paymentData.bookingId,
     amount    |-> ToDecimal2(paymentData.amount),
     currency  |-> IF paymentData.currency = "" THEN DefaultCurrency
                   ELSE paymentData.currency,
     status    |-> IF paymentData.status = "" THEN "pending" ELSE paymentData.status]

\* The values of payments.status the schema names.
PaymentRowStatuses == {"pending", "success", "failed"}

\* DatabaseStorage.createPayment, the insert done.
createPayment(paymentData) ==
    /\ payments' = Insert(payments, nextId.payments,
                          PaymentRow(nextId.payments, paymentData))
    /\ nextId' = [nextId EXCEPT !.payments = @ + 1]

\* The row DatabaseStorage.updatePayment leaves.
UpdatedPaymentRow(row, paymentData) ==
    [f \in DOMAIN row |->
        IF f \notin DOMAIN paymentData THEN row[f]
        ELSE IF f = "amount" THEN ToDecimal2(paymentData[f])
        ELSE paymentData[f]]

\* What updatePayment's returning() hands back: the updated rows.
updatedPaymentRows(id, paymentData) ==
    IF id \in DOMAIN payments THEN <<UpdatedPaymentRow(payments[id], paymentData)>>
    ELSE <<>>

\* DatabaseStorage.updatePayment: no row matches an unknown id.
updatePayment(id, paymentData) ==
    payments' = [i \in DOMAIN payments |->
                    IF i = id THEN UpdatedPaymentRow(payments[i], paymentData)
                    ELSE payments[i]]

\* ------------------------------------------------------------ POST /api/bookings

NoBody == [carId |-> "", startDate |-> 0, endDate |-> 0, totalCost |-> 0,
           status |-> "", paymentStatus |-> ""]

IdleRequest == [pc |-> "idle", userId |-> "", body |-> NoBody, bookingId |-> NoId,
                code |-> 0, message |-> ""]

\* res.status(code).json({message}) / res.json(booking): the handler is over.
Respond(r, code, message) == [r EXCEPT !.pc = "done", !.code = code, !.message = message]

\* AfterCheck without the early return on an unavailable car.
AfterCheckNoReturn(r, isAvailable) == [r EXCEPT !.pc = "checked"]

\* The handler's decision on the result of storage.checkAvailability.
AfterCheck(r, isAvailable) ==
    IF ~isAvailable THEN Respond(r, 400, "conflict")
    ELSE [r EXCEPT !.pc = "checked"]

\* BookingData spreading the request body over the handler's status columns.
BookingDataFromBody(userId, body) ==
    [carId         |-> body.carId,
     userId        |-> userId,
     startDate     |-> NewDate(body.startDate),
     endDate       |-> NewDate(body.endDate),
     totalCost     |-> body.totalCost,
     status        |-> IF body.status = "" THEN "pending" ELSE body.status,
     paymentStatus |-> IF body.paymentStatus = "" THEN "pending"
                       ELSE body.paymentStatus]

\* The object handed to insertBookingSchema.parse: of the body only carId,
\* startDate, endDate and totalCost, the status columns set by the handler.
BookingData(userId, body) ==
    [carId         |-> body.carId,
     userId        |-> userId,
     startDate     |-> NewDate(body.startDate),
     endDate       |-> NewDate(body.endDate),
     totalCost     |-> body.totalCost,
     status        |-> "pending",
     paymentStatus |-> "pending"]

\* The object handed to storage.createPayment.
PaymentData(bookingId, totalCost) ==
    [bookingId |-> bookingId, amount |-> totalCost, currency |-> "INR",
     status |-> "pending"]

\* PostBookingCheck with a check that stores the range it was asked about.
PostBookingCheckStoring(p, userId, body, outcome) ==
    /\ req[p].pc = "idle"
    /\ LET r == [req[p] EXCEPT !.userId = userId, !.body = body]
       IN  req' = [req EXCEPT ![p] =
                      IF outcome = "error" THEN Respond(r, 400, "error")
                      ELSE AfterCheck(r, checkAvailability(body.carId,
                                                           NewDate(body.startDate),
                                                           NewDate(body.endDate)))]
    /\ IF BookingInsertable(BookingData(userId, body))
       THEN createBooking(BookingData(userId, body))
       ELSE UNCHANGED <<bookings, nextId>>
    /\ UNCHANGED <<users, cars, payments, reviews>>

\* The request arrives and the handler awaits storage.checkAvailability.
PostBookingCheck(p, userId, body, outcome) ==
    /\ req[p].pc = "idle"
    /\ LET r == [req[p] EXCEPT !.userId = userId, !.body = body]
       IN  req' = [req EXCEPT ![p] =
                      IF outcome = "error" THEN Respond(r, 400, "error")
                      ELSE AfterCheck(r, checkAvailability(body.carId,
                                                           NewDate(body.startDate),
                                                           NewDate(body.endDate)))]
    /\ UNCHANGED db

\* The handler resumes: insertBookingSchema.parse, then storage.createBooking.
PostBookingInsert(p, outcome) ==
    /\ req[p].pc = "checked"
    /\ LET bookingData == BookingData(req[p].userId, req[p].body)
           id == nextId.bookings
       IN  IF outcome = "ok" /\ BookingInsertable(bookingData)
           THEN /\ createBooking(bookingData)
                /\ req' = [req EXCEPT ![p].pc = "inserted", ![p].bookingId = id]
           ELSE /\ req' = [req EXCEPT ![p] = Respond(req[p], 400, "error")]
                /\ UNCHANGED <<bookings, nextId>>
    /\ UNCHANGED <<users, cars, payments, reviews>>

\* The handler resumes: storage.createPayment, then res.json(booking).
PostBookingPayment(p, outcome) ==
    /\ req[p].pc = "inserted"
    /\ LET paymentData == PaymentData(req[p].bookingId, req[p].body.totalCost)
           id == nextId.payments
       IN  IF outcome = "ok" /\ PaymentInsertable(paymentData)
           THEN /\ payments' = Insert(payments, id, PaymentRow(id, paymentData))
                /\ nextId' = [nextId EXCEPT !.payments = id + 1]
                /\ req' = [req EXCEPT ![p] = Respond(req[p], 200, "booking")]
           ELSE /\ req' = [req EXCEPT ![p] = Respond(req[p], 400, "error")]
                /\ UNCHANGED <<payments, nextId>>
    /\ UNCHANGED <<users, cars, bookings, reviews>>

\* ------------------------------------------------------------ other handlers

\* POST /api/reviews: insertReviewSchema.parse of carId, userId, rating, comment
\* and storage.createReview; a failed insert answers 400 and stores nothing.
PostReview(userId, body) ==
    /\ LET reviewData == [carId |-> body.carId, userId |-> userId,
                          rating |-> body.rating]
       IN  IF ReviewInsertable(reviewData) THEN createReview(reviewData)
           ELSE UNCHANGED <<reviews, nextId>>
    /\ UNCHANGED <<users, cars, bookings, payments, req>>

\* The owner dashboard's activeBookings counting confirmed bookings alone.
activeBookingsConfirmedOnly(ownerBookings) ==
    Len(SelectSeq(ownerBookings, LAMBDA b : b.status = "confirmed"))

\* GET /api/owner/dashboard: activeBookings
activeBookings(ownerBookings) ==
    Len(SelectSeq(ownerBookings,
                  LAMBDA b : b.status = "confirmed" \/ b.status = "pending"))

\* The dashboards' totalRevenue of a list of bookings.
totalRevenue(someBookings) ==
    LET paid == SelectSeq(someBookings, LAMBDA b : b.paymentStatus = "paid")
    IN  reduceSum([i \in 1..Len(paid) |-> Number(paid[i].totalCost)])

\* GET /api/owner/dashboard: the loop over ownerCars that adds up totalRating
\* and totalReviews.
RECURSIVE ratingTotals(_)
ratingTotals(ownerCars) ==
    IF ownerCars = <<>> THEN [totalRating |-> 0, totalReviews |-> 0]
    ELSE LET carReviews == getReviewsByCarId(Head(ownerCars).id)
             rest == ratingTotals(Tail(ownerCars))
         IN  [totalRating  |-> rest.totalRating
                               + reduceSum([i \in 1..Len(carReviews) |->
                                               carReviews[i].rating]),
              totalReviews |-> rest.totalReviews + Len(carReviews)]

\* GET /api/owner/dashboard: averageRating
averageRating(ownerCars) ==
    LET totals == ratingTotals(ownerCars)
    IN  IF totals.totalReviews > 0
        THEN Quotient(totals.totalRating, totals.totalReviews)
        ELSE Quotient(0, 1)

\* GET /api/owner/dashboard: the answer to the signed-in user.
OwnerDashboard(userId) ==
    IF userId \notin DOMAIN users \/ users[userId].role # "owner"
    THEN [code |-> 403, totalCars |-> 0, totalRevenue |-> 0, activeBookings |-> 0,
          averageRating |-> Quotient(0, 1)]
    ELSE LET ownerCars == getCarsByOwner(userId)
             ownerBookings == getBookingsByOwner(userId)
         IN  [code |-> 200,
              totalCars |-> Len(ownerCars),
              totalRevenue |-> totalRevenue(ownerBookings),
              activeBookings |-> activeBookings(ownerBookings),
              averageRating |-> averageRating(ownerCars)]

\* GET /api/admin/dashboard: the answer to the signed-in user.
AdminDashboard(userId) ==
    IF userId \notin DOMAIN users \/ users[userId].role # "admin"
    THEN [code |-> 403, totalBookings |-> 0, totalRevenue |-> 0]
    ELSE LET allBookings == getAllBookings
         IN  [code |-> 200,
              totalBookings |-> Len(allBookings),
              totalRevenue |-> totalRevenue(allBookings)]

\* ------------------------------------------------------------ /api/cars/:id

\* A PUT or DELETE /api/cars/:id request in the hands of its handler: the
\* signed-in user, the :id of the route, the body and the car the handler read.
CarRequest(op, userId, id, body) ==
    [pc |-> "idle", op |-> op, userId |-> userId, id |-> id, body |-> body,
     car |-> getCarById(id), code |-> 0, message |-> ""]

\* What PUT and DELETE /api/cars/:id answer on the car they read: 404 without
\* a car, 403 to a caller who is not its owner, and 0 to go on.
CarAccess(found, car, userId) ==
    IF ~found THEN 404
    ELSE IF car.ownerId # userId THEN 403
    ELSE 0

\* The answer of the handler's catch block: PUT sends 400 with the error's own
\* message, DELETE 500 with a fixed one.
CarCatch(r) ==
    IF r.op = "PUT" THEN Respond(r, 400, "error") ELSE Respond(r, 500, "generic")

\* The request arrives and the handler awaits storage.getCarById.
CarRequestFind(p, op, userId, id, body, outcome) ==
    /\ req[p].pc = "idle"
    /\ LET r == CarRequest(op, userId, id, body)
           access == CarAccess(carFound(id), r.car, userId)
       IN  req' = [req EXCEPT ![p] =
                      IF outcome = "error" THEN CarCatch(r)
                      ELSE IF access = 404 THEN Respond(r, 404, "not found")
                      ELSE IF access = 403 THEN Respond(r, 403, "not authorized")
                      ELSE [r EXCEPT !.pc = "authorized"]]
    /\ UNCHANGED db

\* PUT /api/cars/:id resumes: storage.updateCar(req.params.id, req.body).
PutCarUpdate(p, outcome) ==
    /\ req[p].pc = "authorized" /\ req[p].op = "PUT"
    /\ IF outcome = "ok" /\ CarUpdatable(req[p].id, req[p].body)
       THEN /\ updateCar(req[p].id, req[p].body)
            /\ req' = [req EXCEPT ![p] = Respond(req[p], 200, "car")]
       ELSE /\ req' = [req EXCEPT ![p] = CarCatch(req[p])]
            /\ UNCHANGED cars
    /\ UNCHANGED <<users, bookings, payments, reviews, nextId>>

\* DELETE /api/cars/:id resumes: storage.deleteCar(req.params.id).
DeleteCarDelete(p, outcome) ==
    /\ req[p].pc = "authorized" /\ req[p].op = "DELETE"
    /\ IF outcome = "ok"
       THEN /\ deleteCar(req[p].id)
            /\ req' = [req EXCEPT ![p] = Respond(req[p], 200, "deleted")]
       ELSE /\ req' = [req EXCEPT ![p] = CarCatch(req[p])]
            /\ UNCHANGED <<cars, bookings, payments, reviews>>
    /\ UNCHANGED <<users, nextId>>

\* ------------------------------------------------------------ PUT /api/reviews/:id/response

\* A PUT /api/reviews/:id/response request answered.
ResponseRequest(userId, id, body, code, message) ==
    [pc |-> "done", userId |-> userId, id |-> id, body |-> body,
     code |-> code, message |-> message]

\* PUT /api/reviews/:id/response: the caller's user row is read, a caller whose
\* role is not owner gets 403, and the review is updated with the response.
PutReviewResponse(p, userId, id, body, outcome) ==
    /\ IF outcome = "error"
       THEN /\ req' = [req EXCEPT ![p] = ResponseRequest(userId, id, body, 400, "error")]
            /\ UNCHANGED reviews
       ELSE IF users[userId].role # "owner"
       THEN /\ req' = [req EXCEPT ![p] =
                          ResponseRequest(userId, id, body, 403, "only owners")]
            /\ UNCHANGED reviews
       ELSE /\ updateReview(id, [ownerResponse |-> body.ownerResponse])
            /\ req' = [req EXCEPT ![p] = ResponseRequest(userId, id, body, 200, "review")]
    /\ UNCHANGED <<users, cars, bookings, payments, nextId>>

\* ------------------------------------------------------------ storage calls

\* A call of storage.createBooking.
CreateBooking(bookingData) ==
    /\ BookingInsertable(bookingData)
    /\ createBooking(bookingData)
    /\ UNCHANGED <<users, cars, payments, reviews, req>>

\* A call of storage.updateBooking.
UpdateBooking(id, bookingData) ==
    /\ updateBooking(id, bookingData)
    /\ UNCHANGED <<users, cars, payments, reviews, nextId, req>>

\* A call of storage.createPayment.
CreatePayment(paymentData) ==
    /\ PaymentInsertable(paymentData)
    /\ createPayment(paymentData)
    /\ UNCHANGED <<users, cars, bookings, reviews, req>>

\* A call of updateBooking or updatePayment as its caller p sees it: the
\* arguments, and the first of the returned rows (none is undefined).
StorageCall(op, id, data, returned) ==
    [pc |-> "returned", op |-> op, id |-> id, data |-> data, returned |-> returned]

\* Caller p awaits storage.updateBooking(id, bookingData).
CallUpdateBooking(p, id, bookingData) ==
    /\ updateBooking(id, bookingData)
    /\ req' = [req EXCEPT ![p] = StorageCall("updateBooking", id, bookingData,
                                             updatedBookingRows(id, bookingData))]
    /\ UNCHANGED <<users, cars, payments, reviews, nextId>>

\* Caller p awaits storage.updatePayment(id, paymentData).
CallUpdatePayment(p, id, paymentData) ==
    /\ updatePayment(id, paymentData)
    /\ req' = [req EXCEPT ![p] = StorageCall("updatePayment", id, paymentData,
                                             updatedPaymentRows(id, paymentData))]
    /\ UNCHANGED <<users, cars, bookings, reviews, nextId>>

\* A call of storage.deleteCar.
DeleteCar(id) ==
    /\ deleteCar(id)
    /\ UNCHANGED <<users, nextId, req>>

\* A users row is deleted in the store: the rows that reference it go with it.
DeleteUser(id) ==
    /\ LET left == CascadeDelete({id}, {})
       IN  /\ users' = left.users
           /\ cars' = left.cars
           /\ bookings' = left.bookings
           /\ payments' = left.payments
           /\ reviews' = left.reviews
    /\ UNCHANGED <<nextId, req>>

\* A call of storage.updateCar.
UpdateCar(id, carData) ==
    /\ CarUpdatable(id, carData)
    /\ updateCar(id, carData)
    /\ UNCHANGED <<users, bookings, payments, reviews, nextId, req>>

\* ------------------------------------------------------------ specifications

\* The store after sign-up and listing: two owners with their cars, a renter
\* and an administrator; no booking, payment or review yet.
Init ==
    /\ users = [u \in {"u1", "o1", "o2", "a1"} |->
                   [id |-> u,
                    role |-> CASE u = "u1" -> "user"
                               [] u = "a1" -> "admin"
                               [] OTHER -> "owner"]]
    /\ cars = [c \in {"c1", "c2", "c3"} |->
                  [id |-> c, ownerId |-> IF c = "c2" THEN "o2" ELSE "o1",
                   isAvailable |-> TRUE]]
    /\ bookings = <<>>
    /\ payments = <<>>
    /\ reviews = <<>>
    /\ nextId = [bookings |-> 1, payments |-> 1, reviews |-> 1]
    /\ req = [p \in Procs |-> IdleRequest]

\* The bodies of the booking requests: any two days, in either order, on car
\* c1; and for day 1 alone also another car, a car that is not stored, and
\* status fields, which the handler is to ignore.
BookingBodies ==
    {b \in [carId : {"c1", "c2", "cX"}, startDate : Days, endDate : Days,
            totalCost : {1005}, status : {"", "confirmed"},
            paymentStatus : {"", "paid"}] :
        \/ b.carId = "c1" /\ b.status = "" /\ b.paymentStatus = ""
        \/ /\ b.startDate = 1 /\ b.endDate = 1
           /\ (b.status = "") = (b.paymentStatus = "")
           /\ b.carId = "c1" \/ b.status = ""}

\* Concurrent POST /api/bookings requests, each storage call of a handler a step.
NextBookings ==
    \E p \in Procs, outcome \in StorageOutcomes :
        \/ \E body \in BookingBodies : PostBookingCheck(p, "u1", body, outcome)
        \/ PostBookingInsert(p, outcome)
        \/ PostBookingPayment(p, outcome)

SpecBookings == Init /\ [][NextBookings]_vars

\* What storage.createBooking is given in the availability runs: any two days,
\* in either order, on car c1, and day 1 alone on the other cars.
AvailabilityInserts ==
    {d \in [carId : DOMAIN cars, userId : {"u1"}, startDate : Days, endDate : Days,
            totalCost : {1005}, status : {""}, paymentStatus : {""}] :
        d.carId = "c1" \/ (d.startDate = 1 /\ d.endDate = 1)}

\* Bookings are stored and move through every status.
NextAvailability ==
    \/ /\ nextId.bookings <= MaxBookings
       /\ \E d \in AvailabilityInserts : CreateBooking(d)
    \/ \E id \in DOMAIN bookings, st \in BookingStatuses :
          UpdateBooking(id, [status |-> st])

SpecAvailability == Init /\ [][NextAvailability]_vars

\* What storage.createBooking is given in the revenue runs: day 1 on any car,
\* at a cost of 1.005 or 2.000.
RevenueInserts ==
    [carId : DOMAIN cars, userId : {"u1"}, startDate : {1}, endDate : {1},
     totalCost : {1005, 2000}, status : {""}, paymentStatus : {""}]

\* Bookings are stored and move through every payment status.
NextRevenue ==
    \/ /\ nextId.bookings <= MaxPaidBookings
       /\ \E d \in RevenueInserts : CreateBooking(d)
    \/ \E id \in DOMAIN bookings, ps \in PaymentStatuses :
          UpdateBooking(id, [paymentStatus |-> ps])

SpecRevenue == Init /\ [][NextRevenue]_vars

\* The reviews users post: any rating from 1 to 5 on a stored car, or on one
\* that is not stored.
NextReviews ==
    /\ nextId.reviews <= MaxReviews
    /\ \E body \in [carId : {"c1", "c2", "cX"}, rating : 1..5] : PostReview("u1", body)

SpecReviews == Init /\ [][NextReviews]_vars

\* The reviews stored before the responses are sent.
MaxReviewed == 2

\* Reviews of a customer on the cars of both owners, and responses sent, one
\* request after the other, by the customer and by each owner to stored and
\* unknown reviews.
NextResponses ==
    \/ /\ nextId.reviews <= MaxReviewed
       /\ \E body \in [carId : {"c1", "c2"}, rating : {5}] : PostReview("u1", body)
    \/ \E userId \in {"u1", "o1", "o2"}, id \in 1..(MaxReviewed + 1),
          body \in [ownerResponse : {"thanks", "sorry"}],
          outcome \in StorageOutcomes :
          PutReviewResponse(1, userId, id, body, outcome)

SpecResponses == Init /\ [][NextResponses]_vars

\* The bookings stored before the updates are called.
MaxUpdated == 2

\* The fields handed to updateBooking: a status.
BookingPatches == [status : BookingStatuses]

\* The fields handed to updatePayment: a status.
PaymentPatches == [status : PaymentRowStatuses]

\* Bookings of car c1 and their payments are stored, and updateBooking and
\* updatePayment are called on stored and unknown ids.
NextUpdates ==
    \/ /\ nextId.bookings <= MaxUpdated
       /\ CreateBooking([carId |-> "c1", userId |-> "u1", startDate |-> 1,
                         endDate |-> 1, totalCost |-> 1005, status |-> "",
                         paymentStatus |-> ""])
    \/ CreatePayment(PaymentData(nextId.payments, 1005))
    \/ \E id \in 1..(MaxUpdated + 1) :
          \/ \E bookingData \in BookingPatches : CallUpdateBooking(1, id, bookingData)
          \/ \E paymentData \in PaymentPatches : CallUpdatePayment(1, id, paymentData)

SpecUpdates == Init /\ [][NextUpdates]_vars

\* What storage.createBooking is given in the deletion runs: day 1 on a car of
\* either owner, or on one that is not stored, by the customer or by owner o2.
CascadeInserts ==
    [carId : {"c1", "c2", "cX"}, userId : {"u1", "o2"}, startDate : {1}, endDate : {1},
     totalCost : {1005}, status : {""}, paymentStatus : {""}]

\* Bookings, payments and reviews are created, and cars and users deleted.
NextCascade ==
    \/ /\ nextId.bookings <= MaxBookings
       /\ \E d \in CascadeInserts : CreateBooking(d)
    \/ \E bookingId \in 1..MaxBookings : CreatePayment(PaymentData(bookingId, 1005))
    \/ /\ nextId.reviews <= MaxBookings
       /\ \E userId \in {"u1", "o2"}, body \in [carId : {"c1", "c2"}, rating : {5}] :
             PostReview(userId, body)
    \/ \E id \in {"c1", "c2", "cX"} : DeleteCar(id)
    \/ \E id \in {"u1", "o1"} : id \in DOMAIN users /\ DeleteUser(id)

SpecCascade == Init /\ [][NextCascade]_vars

\* Reviews with a low and a high rating are posted on the cars of both
\* owners, and car c3 is taken off the list and put back.
NextRatings ==
    \/ /\ nextId.reviews <= MaxReviews
       /\ \E body \in [carId : {"c1", "c2", "c3"}, rating : {2, 5}] :
             PostReview("u1", body)
    \/ \E isAvailable \in BOOLEAN : UpdateCar("c3", [isAvailable |-> isAvailable])

SpecRatings == Init /\ [][NextRatings]_vars

\* The bodies of the booking requests in the cost runs: day 1 on a car of
\* either owner, at a totalCost of 2.000, 1.004 or 1.005.
CostBodies ==
    [carId : {"c1", "c2"}, startDate : {1}, endDate : {1},
     totalCost : {2000, 1004, 1005}, status : {""}, paymentStatus : {""}]

\* Concurrent POST /api/bookings requests with whole and fractional costs.
NextCosts ==
    \E p \in Procs, outcome \in StorageOutcomes :
        \/ \E body \in CostBodies : PostBookingCheck(p, "u1", body, outcome)
        \/ PostBookingInsert(p, outcome)
        \/ PostBookingPayment(p, outcome)

SpecCosts == Init /\ [][NextCosts]_vars

\* The bodies of the review requests in the rating runs: any whole rating
\* from below to above the five stars, on any stored car.
RatingBodies == [carId : {"c1", "c2", "c3"}, rating : {-1, 0, 1, 5, 6}]

\* POST /api/reviews requests with ratings inside and outside 1..5.
NextRatingInputs ==
    /\ nextId.reviews <= MaxReviewed
    /\ \E body \in RatingBodies : PostReview("u1", body)

SpecRatingInputs == Init /\ [][NextRatingInputs]_vars

\* The bodies of the PUT /api/cars/:id requests: the car taken off the list, or
\* handed to another owner.
CarBodies == {[isAvailable |-> FALSE], [ownerId |-> "o2"]}

\* Concurrent PUT and DELETE /api/cars/:id requests of the two owners, on a
\* stored car and on one that is not stored.
NextCars ==
    \E p \in Procs, outcome \in StorageOutcomes :
        \/ \E userId \in {"o1", "o2"}, id \in {"c1", "cX"} :
              \/ \E body \in CarBodies :
                    CarRequestFind(p, "PUT", userId, id, body, outcome)
              \/ CarRequestFind(p, "DELETE", userId, id, <<>>, outcome)
        \/ PutCarUpdate(p, outcome)
        \/ DeleteCarDelete(p, outcome)

SpecCars == Init /\ [][NextCars]_vars

\* ------------------------------------------------------------ properties

ActiveStatuses == {"pending", "confirmed"}

\* The closed-interval rule for two date ranges.
Overlap(s1, e1, s2, e2) == s1 <= e2 /\ e1 >= s2

\* The payments stored for a booking.
PaymentsOf(bookingId) == {i \in DOMAIN payments : payments[i].bookingId = bookingId}

\* C1: in every reachable state, two distinct pending or confirmed bookings of
\* the same car never have overlapping date ranges (closed intervals).
C1_NoDoubleBooking ==
    \A i, j \in DOMAIN bookings :
        (/\ i # j
         /\ bookings[i].carId = bookings[j].carId
         /\ bookings[i].status \in ActiveStatuses
         /\ bookings[j].status \in ActiveStatuses)
        => ~Overlap(bookings[i].startDate, bookings[i].endDate,
                    bookings[j].startDate, bookings[j].endDate)

\* Two requests for the same car and the same dates, start not after end.
SameBooking(p, q) ==
    /\ req[p].body.carId = req[q].body.carId
    /\ req[p].body.startDate = req[q].body.startDate
    /\ req[p].body.endDate = req[q].body.endDate
    /\ req[p].body.startDate <= req[p].body.endDate

\* C2: of two finished requests for the same car and identical dates, neither
\* of which met a storage error, exactly one succeeded and created a booking;
\* the other got the conflict error and created nothing.
C2_ExactlyOneSucceeds ==
    \A p, q \in Procs :
        (/\ p # q
         /\ req[p].pc = "done" /\ req[q].pc = "done"
         /\ req[p].message # "error" /\ req[q].message # "error"
         /\ SameBooking(p, q))
        => \E w \in {p, q} : \E l \in {p, q} \ {w} :
              /\ req[w].code = 200 /\ req[w].bookingId \in DOMAIN bookings
              /\ req[l].code = 400 /\ req[l].message = "conflict"
              /\ req[l].bookingId = NoId

\* C4: a request whose availability check returns false ends at once with 400
\* and the conflict message, bookings and payments left as they were; and a
\* finished request does nothing more.
C4_ConflictRejected ==
    [][\A p \in Procs :
        /\ (/\ req[p].pc = "idle" /\ req'[p].pc # "idle"
            /\ req'[p].message # "error"
            /\ ~checkAvailability(req'[p].body.carId,
                                  NewDate(req'[p].body.startDate),
                                  NewDate(req'[p].body.endDate)))
           => /\ req'[p].pc = "done"
              /\ req'[p].code = 400 /\ req'[p].message = "conflict"
              /\ req'[p].bookingId = NoId
              /\ bookings' = bookings /\ payments' = payments
        /\ req[p].pc = "done" => req'[p] = req[p]]_vars

\* C4's case: a request was refused for a conflict with a stored booking.
C4_Witness ==
    \E p \in Procs :
        /\ req[p].pc = "done" /\ req[p].message = "conflict"
        /\ ~checkAvailability(req[p].body.carId, NewDate(req[p].body.startDate),
                              NewDate(req[p].body.endDate))

\* C5: every finished request that created a booking created exactly one
\* payment with that booking's id, and no booking has two payments.
C5_CreatedBookingHasOnePayment ==
    /\ \A p \in Procs :
          (req[p].pc = "done" /\ req[p].bookingId \in DOMAIN bookings)
          => Cardinality(PaymentsOf(req[p].bookingId)) = 1
    /\ \A b \in DOMAIN bookings : Cardinality(PaymentsOf(b)) <= 1

\* C6: in every state another request can observe, every stored booking has
\* exactly one payment.
C6_BookingAlwaysHasPayment ==
    \A b \in DOMAIN bookings : Cardinality(PaymentsOf(b)) = 1

\* C7: every booking a request creates starts as (pending, pending), whatever
\* status fields the body carried, and its payment starts pending, in INR.
C7_CreatedPending ==
    [][/\ \A b \in DOMAIN bookings' \ DOMAIN bookings :
            /\ bookings'[b].status = "pending"
            /\ bookings'[b].paymentStatus = "pending"
       /\ \A i \in DOMAIN payments' \ DOMAIN payments :
            /\ payments'[i].status = "pending"
            /\ payments'[i].currency = "INR"]_vars

\* C7's case: a request whose body carried status fields created its booking
\* and its payment.
C7_Witness ==
    \E p \in Procs :
        /\ req[p].body.status = "confirmed" /\ req[p].body.paymentStatus = "paid"
        /\ req[p].code = 200
        /\ req[p].bookingId \in DOMAIN bookings
        /\ PaymentsOf(req[p].bookingId) # {}

\* C3: checkAvailability(carId, s, e) is true iff no pending or confirmed
\* booking of that car has start <= e and end >= s; a request starting on an
\* active booking's end date is unavailable, and that booking does not stand
\* in the way of one starting the day after.
C3_AvailabilityIffNoActiveOverlap ==
    /\ \A c \in DOMAIN cars \cup {"cX"}, s \in Days, e \in Days :
          checkAvailability(c, s, e)
          <=> ~\E b \in DOMAIN bookings :
                  /\ bookings[b].carId = c
                  /\ bookings[b].status \in ActiveStatuses
                  /\ bookings[b].startDate <= e /\ bookings[b].endDate >= s
    /\ \A b \in DOMAIN bookings, e \in Days :
          (/\ bookings[b].status \in ActiveStatuses
           /\ bookings[b].startDate <= bookings[b].endDate
           /\ bookings[b].endDate <= e)
          => /\ ~checkAvailability(bookings[b].carId, bookings[b].endDate, e)
             /\ bookings[b].endDate < e
                => Len(overlappingBookings(<<bookings[b]>>, bookings[b].carId,
                                           bookings[b].endDate + 1, e)) = 0

\* C3's case: car c1 has a confirmed booking of day 1 and a cancelled one of
\* day 2; it is unavailable from day 1 on and available on day 2.
C3_Witness ==
    /\ \E b \in DOMAIN bookings :
          /\ bookings[b].carId = "c1" /\ bookings[b].status = "confirmed"
          /\ bookings[b].startDate = 1 /\ bookings[b].endDate = 1
    /\ \E b \in DOMAIN bookings :
          /\ bookings[b].carId = "c1" /\ bookings[b].status = "cancelled"
          /\ bookings[b].startDate = 2 /\ bookings[b].endDate = 2
    /\ ~checkAvailability("c1", 1, 2)
    /\ checkAvailability("c1", 2, 2)

\* The sum of the ratings of a set of reviews.
RECURSIVE SumRatings(_)
SumRatings(ids) ==
    IF ids = {} THEN 0
    ELSE LET i == CHOOSE x \in ids : TRUE IN reviews[i].rating + SumRatings(ids \ {i})

ReviewsOf(carId) == {i \in DOMAIN reviews : reviews[i].carId = carId}

\* C8: getAverageRating(carId) is 0 for a car without reviews and otherwise
\* the sum of the ratings of that car's reviews divided by their number: 4
\* for the ratings 5, 3, 4.
C8_AverageRatingIsMean ==
    \A c \in DOMAIN cars \cup {"cX"} :
        LET avg == getAverageRating(c)
            n == Cardinality(ReviewsOf(c))
        IN  /\ n = 0 => avg = Quotient(0, 1)
            /\ n > 0 => /\ avg.num * n = SumRatings(ReviewsOf(c)) * avg.den
                        /\ avg.den > 0 /\ GCD(avg.num, avg.den) = 1
            /\ (/\ n = 3
                /\ {reviews[i].rating : i \in ReviewsOf(c)} = {5, 3, 4})
               => avg = Quotient(4, 1)

\* C8's case: car c1 has the ratings 5, 3, 4, car c2 has a review of its own
\* and car c3 has none.
C8_Witness ==
    /\ Cardinality(ReviewsOf("c1")) = 3
    /\ {reviews[i].rating : i \in ReviewsOf("c1")} = {5, 3, 4}
    /\ ReviewsOf("c2") # {}
    /\ getAverageRating("c1") = Quotient(4, 1)
    /\ getAverageRating("c3") = Quotient(0, 1)

\* The sum of totalCost over a set of bookings.
RECURSIVE SumTotalCost(_)
SumTotalCost(ids) ==
    IF ids = {} THEN 0
    ELSE LET i == CHOOSE x \in ids : TRUE
         IN  bookings[i].totalCost + SumTotalCost(ids \ {i})

PaidBookings == {b \in DOMAIN bookings : bookings[b].paymentStatus = "paid"}

BookingsOfOwner(u) == {b \in DOMAIN bookings : cars[bookings[b].carId].ownerId = u}

\* C9: the owner dashboard's totalRevenue is the sum of totalCost over the
\* paid bookings of the requesting owner's cars, the admin dashboard's that
\* sum over all paid bookings.
C9_RevenueIsPaidTotal ==
    /\ \A u \in DOMAIN users :
          users[u].role = "owner"
          => /\ OwnerDashboard(u).code = 200
             /\ OwnerDashboard(u).totalRevenue
                  = SumTotalCost(PaidBookings \cap BookingsOfOwner(u))
    /\ \A u \in DOMAIN users :
          users[u].role = "admin"
          => /\ AdminDashboard(u).code = 200
             /\ AdminDashboard(u).totalRevenue = SumTotalCost(PaidBookings)

\* C9's case: owner o1 has a paid booking and one whose payment failed, owner
\* o2 has a paid booking, and the dashboards tell them apart.
C9_Witness ==
    /\ \E a, c \in BookingsOfOwner("o1") :
          /\ a \in PaidBookings
          /\ bookings[c].paymentStatus = "failed"
    /\ PaidBookings \cap BookingsOfOwner("o2") # {}
    /\ OwnerDashboard("o1").totalRevenue > 0
    /\ OwnerDashboard("o1").totalRevenue < AdminDashboard("a1").totalRevenue

\* Whether a bookings row alone makes checkAvailability answer false for some
\* request on its car.
CanBlock(b) ==
    \E s \in Days, e \in Days : Len(overlappingBookings(<<b>>, b.carId, s, e)) # 0

\* C10: the owner dashboard's activeBookings is the number of the owner's
\* pending or confirmed bookings, which are exactly those of the owner's
\* bookings that can make checkAvailability answer false.
C10_ActiveBookingsCount ==
    \A u \in DOMAIN users :
        users[u].role = "owner"
        => LET active == {b \in BookingsOfOwner(u) :
                             bookings[b].status \in ActiveStatuses}
           IN  /\ OwnerDashboard(u).activeBookings = Cardinality(active)
               /\ active = {b \in BookingsOfOwner(u) : CanBlock(bookings[b])}

\* C10's case: owner o1 has a pending booking on one car and a cancelled one
\* on another, and the dashboard counts one.
C10_Witness ==
    /\ \E a, c \in BookingsOfOwner("o1") :
          /\ bookings[a].status = "pending" /\ bookings[c].status = "cancelled"
          /\ bookings[a].carId # bookings[c].carId
    /\ OwnerDashboard("o1").activeBookings = 1

\* C11: PUT and DELETE /api/cars/:id answer 404 when the car is missing and 403
\* when its owner is not the caller, and leave the cars as they are; the cars
\* change only in the step of a request whose caller is the owner of record of
\* the car at that moment, and then only the car of the request.
C11_OnlyOwnerChangesCar ==
    [][/\ \A p \in Procs :
            /\ (req[p].pc = "idle" /\ req'[p].pc # "idle")
               => /\ cars' = cars
                  /\ req'[p].code \notin {400, 500}
                     => /\ req'[p].id \notin DOMAIN cars
                           => req'[p].pc = "done" /\ req'[p].code = 404
                        /\ (/\ req'[p].id \in DOMAIN cars
                            /\ cars[req'[p].id].ownerId # req'[p].userId)
                           => req'[p].pc = "done" /\ req'[p].code = 403
            /\ req[p].pc = "done" => req'[p] = req[p]
       /\ cars' # cars
          => \E p \in Procs :
                /\ req[p].pc = "authorized"
                /\ req[p].id \in DOMAIN cars
                /\ cars[req[p].id].ownerId = req[p].userId
                /\ req'[p].pc = "done" /\ req'[p].code = 200
                /\ \A c \in DOMAIN cars \ {req[p].id} :
                      c \in DOMAIN cars' /\ cars'[c] = cars[c]]_vars


\* C12: a PUT /api/reviews/:id/response changes a review only when its caller
\* owns the car the review refers to; a request of any other user leaves the
\* reviews as they are.
C12_OnlyCarOwnerResponds ==
    [][\A p \in Procs :
          (req'[p] # req[p] /\ req'[p].pc = "done")
          => \A r \in DOMAIN reviews :
                reviews'[r] # reviews[r]
                => /\ r = req'[p].id
                   /\ cars[reviews[r].carId].ownerId = req'[p].userId]_vars

\* The fields of row that data does not supply are those of old, and the
\* supplied ones are data's.
OnlySupplied(old, row, data) ==
    \A f \in DOMAIN old :
        IF f \in DOMAIN data THEN row[f] = data[f] ELSE row[f] = old[f]

\* What a call of an update with id and data may do to a table: nothing and
\* return undefined on an unknown id, and on a stored id change the supplied
\* fields of that row alone and return it.
UpdateContract(table, tableAfter, call) ==
    /\ DOMAIN tableAfter = DOMAIN table
    /\ \A i \in DOMAIN table \ {call.id} : tableAfter[i] = table[i]
    /\ IF call.id \notin DOMAIN table
       THEN call.returned = <<>>
       ELSE /\ OnlySupplied(table[call.id], tableAfter[call.id], call.data)
            /\ call.returned = <<tableAfter[call.id]>>

\* C13: updateBooking and updatePayment with an id that matches no record
\* return undefined and leave every booking and payment unchanged; with a
\* matching id they change only the supplied fields of that one record.
C13_UpdateOnlyMatchingRecord ==
    [][\A p \in Procs :
          (req'[p] # req[p] /\ req'[p].pc = "returned")
          => /\ req'[p].op = "updateBooking"
                => /\ UpdateContract(bookings, bookings', req'[p])
                   /\ payments' = payments
             /\ req'[p].op = "updatePayment"
                => /\ UpdateContract(payments, payments', req'[p])
                   /\ bookings' = bookings]_vars

\* C13's case: with two bookings and two payments stored, an update of an
\* unknown id has returned undefined, and the second booking and the second
\* payment have been changed while the first are as created.
C13_Witness ==
    /\ DOMAIN bookings = {1, 2} /\ DOMAIN payments = {1, 2}
    /\ req[1].pc = "returned" /\ req[1].id \notin DOMAIN bookings
    /\ req[1].returned = <<>>
    /\ bookings[1].status = "pending" /\ bookings[2].status = "cancelled"
    /\ bookings[2].paymentStatus = "pending"
    /\ payments[1].status = "pending" /\ payments[2].status = "failed"

\* C14: every stored booking and review references a stored car and a stored
\* user, every payment a stored booking, and every car a stored owner.
C14_ReferentialIntegrity ==
    /\ \A b \in DOMAIN bookings :
          bookings[b].carId \in DOMAIN cars /\ bookings[b].userId \in DOMAIN users
    /\ \A r \in DOMAIN reviews :
          reviews[r].carId \in DOMAIN cars /\ reviews[r].userId \in DOMAIN users
    /\ \A i \in DOMAIN payments : payments[i].bookingId \in DOMAIN bookings
    /\ \A c \in DOMAIN cars : cars[c].ownerId \in DOMAIN users

\* C14's case: car c1 was deleted, no user was, and of two bookings with their
\* payments and two reviews only those of car c2 are left.
C14_Witness ==
    /\ DOMAIN cars = {"c2", "c3"} /\ DOMAIN users = {"u1", "o1", "o2", "a1"}
    /\ nextId.bookings = 3 /\ nextId.payments = 3 /\ nextId.reviews = 3
    /\ DOMAIN bookings = {2} /\ DOMAIN payments = {2} /\ DOMAIN reviews = {2}

\* C17: checkAvailability is true for every car id that matches no stored car,
\* whatever the dates and the rows stored.
C17_UnknownCarIsAvailable ==
    \A carId \in {"c1", "c2", "c3", "cX"} \ DOMAIN cars :
        \A startDate \in Days, endDate \in Days :
            checkAvailability(carId, NewDate(startDate), NewDate(endDate))

\* C17's case: car c1 is no longer stored, its booking went with it, and a
\* booking of another car for the same day is stored.
C17_Witness ==
    /\ "c1" \notin DOMAIN cars /\ "u1" \in DOMAIN users /\ "o2" \in DOMAIN users
    /\ DOMAIN bookings = {2} /\ bookings[2].carId = "c2"
    /\ bookings[2].status = "pending"

C18_CheckAvailabilityReadOnly ==
    [][\A p \in Procs :
          (req[p].pc = "idle" /\ req'[p].pc # "idle")
          => /\ users' = users /\ cars' = cars /\ bookings' = bookings
             /\ payments' = payments /\ reviews' = reviews
             /\ nextId' = nextId]_vars

\* C18's case: one call of checkAvailability returned true and its handler
\* went on to store a booking, and a later call returned false.
C18_Witness ==
    /\ \E p \in Procs : req[p].bookingId \in DOMAIN bookings
    /\ \E p \in Procs : req[p].pc = "done" /\ req[p].message = "conflict"

\* C19: in every state, for every stored booking and every booking status, a
\* call of updateBooking with that status is possible and stores it, whatever
\* the booking's status and the other bookings of its car; and likewise
\* updatePayment for every stored payment and payment status.
C19_NoTransitionTable ==
    /\ \A b \in DOMAIN bookings, st \in BookingStatuses :
          ENABLED (/\ CallUpdateBooking(1, b, [status |-> st])
                   /\ bookings'[b].status = st)
    /\ \A i \in DOMAIN payments, st \in PaymentRowStatuses :
          ENABLED (/\ CallUpdatePayment(1, i, [status |-> st])
                   /\ payments'[i].status = st)

\* C19's case: of two bookings of car c1 for the same day one is completed and
\* the other confirmed, updateBooking has just returned a row, and a payment
\* has failed.
C19_Witness ==
    /\ DOMAIN bookings = {1, 2}
    /\ bookings[1].status = "completed" /\ bookings[2].status = "confirmed"
    /\ bookings[1].carId = bookings[2].carId
    /\ bookings[1].startDate = bookings[2].startDate
    /\ req[1].pc = "returned" /\ req[1].op = "updateBooking"
    /\ req[1].returned # <<>>
    /\ \E i \in DOMAIN payments : payments[i].status = "failed"

\* The sum over a set of cars of average rating times number of reviews, as
\* the car detail gives them.
RECURSIVE SumOfCarRatings(_)
SumOfCarRatings(carIds) ==
    IF carIds = {} THEN 0
    ELSE LET c == CHOOSE x \in carIds : TRUE
             avg == getAverageRating(c)
         IN  (avg.num * Cardinality(ReviewsOf(c))) \div avg.den
             + SumOfCarRatings(carIds \ {c})

CarsOfOwner(u) == {c \in DOMAIN cars : cars[c].ownerId = u}

\* C20: the averageRating of every car in getAllCars' list is
\* getAverageRating of that car, the list holding the available cars; and the
\* owner dashboard's averageRating is the same sum-over-count, 0 without
\* reviews, taken over the reviews of the owner's cars: it is the car's own
\* average when one car has all the reviews, and times the number of reviews
\* it is the sum of the cars' averages times their numbers of reviews.
C20_AverageRatingSameFormula ==
    /\ {getAllCars[i].id : i \in 1..Len(getAllCars)}
         = {c \in DOMAIN cars : cars[c].isAvailable}
    /\ \A i \in 1..Len(getAllCars) :
          /\ getAllCars[i].averageRating = getAverageRating(getAllCars[i].id)
          /\ getAllCars[i].reviewCount = Cardinality(ReviewsOf(getAllCars[i].id))
    /\ \A u \in {"o1", "o2"} :
          LET d == OwnerDashboard(u).averageRating
              rated == {c \in CarsOfOwner(u) : ReviewsOf(c) # {}}
              n == Cardinality(UNION {ReviewsOf(c) : c \in CarsOfOwner(u)})
          IN  /\ rated = {} => d = Quotient(0, 1)
              /\ \A c \in rated : rated = {c} => d = getAverageRating(c)
              /\ d.num * n = d.den * SumOfCarRatings(CarsOfOwner(u))

\* C20's case: owner o1's cars c1 and c3 have different averages, 7/2 over
\* two reviews and 5 over one, c3 is off the list, and the dashboard shows 4.
C20_Witness ==
    /\ getAverageRating("c1") = Quotient(7, 2)
    /\ getAverageRating("c3") = Quotient(5, 1)
    /\ ~cars["c3"].isAvailable
    /\ OwnerDashboard("o1").averageRating = Quotient(4, 1)
    /\ OwnerDashboard("o2").averageRating = Quotient(2, 1)

\* C21: the booking a finished request created holds the totalCost of the
\* request, its payment holds the same amount, and no two requests created
\* bookings with the same id. The body carries thousandths and the rows
\* hundredths.
C21_TotalCostStoredAsSupplied ==
    \A p \in Procs :
        (req[p].pc = "done" /\ req[p].code = 200)
        => /\ req[p].bookingId \in DOMAIN bookings
           /\ bookings[req[p].bookingId].id = req[p].bookingId
           /\ Number(bookings[req[p].bookingId].totalCost) * 10 = req[p].body.totalCost
           /\ \A i \in PaymentsOf(req[p].bookingId) :
                 Number(payments[i].amount) * 10 = req[p].body.totalCost
           /\ \A q \in Procs \ {p} : req[q].bookingId # req[p].bookingId

\* C22: every stored review has a rating from 1 to 5, and getAverageRating
\* is from 0 to 5 for every car.
C22_RatingInRange ==
    /\ \A r \in DOMAIN reviews : reviews[r].rating \in 1..5
    /\ \A c \in DOMAIN cars :
          LET avg == getAverageRating(c)
          IN  0 <= avg.num /\ avg.num <= 5 * avg.den

\* C23: a PUT /api/cars/:id that ends with 200 leaves the ownerId and the id
\* of every car as they were, whatever its body.
C23_PutKeepsOwnerAndId ==
    [][\A p \in Procs :
          (/\ req[p].pc = "authorized" /\ req[p].op = "PUT"
           /\ req'[p].pc = "done" /\ req'[p].code = 200)
          => \A c \in DOMAIN cars :
                /\ c \in DOMAIN cars'
                /\ cars'[c].ownerId = cars[c].ownerId
                /\ cars'[c].id = cars[c].id]_vars

====
